---- MODULE Spec2Model ----
(***************************************************************************)
(* faucet: a content dispatcher.  One process run loads a configuration,   *)
(* validates it, acquires a payload, scores every configured command with  *)
(* the configured scorers, ranks the commands and either launches the top  *)
(* one, asks dmenu, or does nothing.  The model follows src/main.rs.       *)
(***************************************************************************)
EXTENDS Integers, Sequences, FiniteSets, TLC

VARIABLES
    config,             \* Config { commands, scorers, min, max }
    pc,                 \* position of main()
    data,               \* Data::Text / Data::Binary, or "none" before it is read
    temp_file,          \* contents of /tmp/faucet_data written by this run
    text_for_matching,  \* the string every regex scorer is matched against
    scored_commands,    \* score of each command, in config.commands order
    next_scorer,        \* index of the scorer the for_each evaluates next
    log,                \* one record per scorer evaluated so far
    overflow_mode,      \* "wrapping" once an i32 addition overflowed and wrapped
    sorted_commands,    \* indices of the commands with score > 0, ranked
    outcome,            \* which arm of the final match ran
    menu_stdin,         \* the display strings written to dmenu
    selected_label,     \* dmenu's answer after trim()
    spawned,            \* command templates launched with cmd.spawn()
    error               \* why main returned Err, "" otherwise

vars == <<config, pc, data, temp_file, text_for_matching, scored_commands,
          next_scorer, log, overflow_mode, sorted_commands, outcome,
          menu_stdin, selected_label, spawned, error>>

----------------------------------------------------------------------------
(* Bounds of the model *)

MaxScorers == 2
MaxTargets == 2
MaxCommands == 2
MaxLen == 3

(* i32 *)
MaxI32 == 2147483647
MinI32 == -MaxI32 - 1

(* the literal floor of the multi-candidate auto-select test *)
HardFloor == 10

default_min_threshold == 10
default_max_threshold == 100

----------------------------------------------------------------------------
(* Strings that are inspected character by character are sequences of     *)
(* one-character strings.                                                  *)

IsWhitespace(c) == c \in {" ", "\n", "\t"}

RECURSIVE TrimEnd(_)
TrimEnd(s) ==
    IF s = <<>> THEN s
    ELSE IF IsWhitespace(s[Len(s)]) THEN TrimEnd(SubSeq(s, 1, Len(s) - 1))
    ELSE s

RECURSIVE TrimStart(_)
TrimStart(s) ==
    IF s = <<>> THEN s
    ELSE IF IsWhitespace(s[1]) THEN TrimStart(Tail(s))
    ELSE s

Trim(s) == TrimStart(TrimEnd(s))

RECURSIVE SeqsUpTo(_, _)
SeqsUpTo(S, n) ==
    IF n = 0 THEN {<<>>}
    ELSE LET shorter == SeqsUpTo(S, n - 1)
         IN  shorter \cup {Append(s, x) : s \in {t \in shorter : Len(t) = n - 1}, x \in S}

----------------------------------------------------------------------------
(* Regex::new and Regex::is_match for the patterns of the model *)

Patterns == {"^h", "h$", "("}

InvalidPatterns == {"("}

RegexNewOk(regex) == regex \notin InvalidPatterns

RegexIsMatch(regex, text) ==
    CASE regex = "^h" -> Len(text) > 0 /\ text[1] = "h"
      [] regex = "h$" -> Len(text) > 0 /\ text[Len(text)] = "h"
      [] OTHER -> FALSE

----------------------------------------------------------------------------
(* i32 arithmetic.  An addition that leaves the range panics in a build     *)
(* with overflow checks and wraps in one without; which build runs shows    *)
(* at the first such addition: the run either ends in "panic" or goes on    *)
(* wrapping.                                                                *)

Overflows(x, y) ==
    \/ y > 0 /\ x > MaxI32 - y
    \/ y < 0 /\ x < MinI32 - y

WrappingAdd(x, y) ==
    IF y > 0 /\ x > MaxI32 - y THEN ((x + MinI32) + y) + MinI32
    ELSE IF y < 0 /\ x < MinI32 - y THEN ((x - MinI32) + y) - MinI32
    ELSE x + y

----------------------------------------------------------------------------
(* Scorer: the four variants share one shape here.  A single-target        *)
(* variant holds its (command_label, score_change) as a one-element         *)
(* scores list; pred is the regex or the check command.                     *)

IsRegexKind(scorer) == scorer.kind \in {"Regex", "RegexMulti"}

IsCommandKind(scorer) == scorer.kind \in {"Command", "CommandMulti"}

command_labels(scorer) == [i \in 1..Len(scorer.scores) |-> scorer.scores[i][1]]

contains_key(commands, label) == \E i \in 1..Len(commands) : commands[i].label = label

(* IndexMap::get_mut: the position of the entry, 0 for None *)
get_mut(commands, label) ==
    IF contains_key(commands, label)
    THEN CHOOSE i \in 1..Len(commands) : commands[i].label = label
    ELSE 0

(* a faulty variant: only the first label of a scorer is looked up *)
missing_commands_FirstLabelOnly(cfg) ==
    {<<i, 1>> : i \in {r \in 1..Len(cfg.scorers) :
                         /\ Len(cfg.scorers[r].scores) >= 1
                         /\ ~contains_key(cfg.commands, command_labels(cfg.scorers[r])[1])}}

(* the (scorer, target) positions whose label is no configured command *)
missing_commands(cfg) ==
    UNION {{<<i, j>> : j \in {t \in 1..Len(cfg.scorers[i].scores) :
                                ~contains_key(cfg.commands, command_labels(cfg.scorers[i])[t])}} :
           i \in 1..Len(cfg.scorers)}

ThresholdsBad(min, max) == min >= max

(* validate_environment: "" for Ok, else the reason of the bail *)
validate_environment(cfg, tools_found) ==
    IF ~tools_found THEN "required command not found"
    ELSE IF ThresholdsBad(cfg.auto_select_min_threshold, cfg.auto_select_max_threshold)
         THEN "bad auto select values"
    ELSE IF missing_commands(cfg) # {} THEN "scorers reference non-existent commands"
    ELSE ""

----------------------------------------------------------------------------
(* Data *)

is_text(d) == d.kind = "Text"

(* a faulty variant: trim() instead of trim_end() *)
get_text_for_matching_Trim(d, file_stdout) ==
    IF is_text(d) THEN Trim(d.text) ELSE Trim(file_stdout)

get_text_for_matching(d, file_stdout) ==
    IF is_text(d) THEN TrimEnd(d.text) ELSE Trim(file_stdout)

----------------------------------------------------------------------------
(* One scorer of the for_each *)

(* a faulty variant: any exit status of a launched command counts as success *)
CommandSucceeded_AnyExit(status) == status # "spawn_failed"

CommandSucceeded(status) == status = "exit0"

(* a faulty variant: the check command is run once per target *)
CheckRuns_PerTarget(scorer) == IF IsCommandKind(scorer) THEN Len(scorer.scores) ELSE 0

(* how often the scorer runs its check command *)
CheckRuns(scorer) == IF IsCommandKind(scorer) THEN 1 ELSE 0

(* "matched", or why the scorer applies nothing *)
ScorerResult(scorer, text, status) ==
    IF IsRegexKind(scorer)
    THEN IF ~RegexNewOk(scorer.pred) THEN "bad_regex"
         ELSE IF RegexIsMatch(scorer.pred, text) THEN "matched"
         ELSE "no_match"
    ELSE IF CommandSucceeded(status) THEN "matched"
         ELSE IF status = "spawn_failed" THEN "spawn_failed"
         ELSE "exit_nonzero"

(* scores.iter().for_each(... *score += score_change ...), from target k on *)
RECURSIVE ApplyScores(_, _, _, _)
ApplyScores(scores, commands, acc, k) ==
    IF k > Len(scores) THEN acc
    ELSE LET at == get_mut(commands, scores[k][1])
             change == scores[k][2]
         IN  IF at = 0
             THEN ApplyScores(scores, commands,
                              [acc EXCEPT !.dropped = @ + 1], k + 1)
             ELSE ApplyScores(scores, commands,
                              [table |-> [acc.table EXCEPT ![at] = WrappingAdd(@, change)],
                               applied |-> acc.applied + 1,
                               dropped |-> acc.dropped,
                               overflowed |-> acc.overflowed
                                              \/ Overflows(acc.table[at], change)],
                              k + 1)

EvalScorerFold(scorer, commands, table, result) ==
    LET start == [table |-> table, applied |-> 0, dropped |-> 0, overflowed |-> FALSE]
    IN  IF result = "matched" THEN ApplyScores(scorer.scores, commands, start, 1)
        ELSE start

----------------------------------------------------------------------------
(* Ranking and decision *)

(* a faulty variant: the scores are compared the other way round *)
RanksBefore_Ascending(table, a, b) ==
    \/ table[a] < table[b]
    \/ table[a] = table[b] /\ a < b

(* the sort_by comparator: a ranks before b *)
RanksBefore(table, a, b) ==
    \/ table[a] > table[b]
    \/ table[a] = table[b] /\ a < b

RECURSIVE InsertRanked(_, _, _)
InsertRanked(table, ranked, x) ==
    IF ranked = <<>> THEN <<x>>
    ELSE IF RanksBefore(table, x, ranked[1]) THEN <<x>> \o ranked
    ELSE <<ranked[1]>> \o InsertRanked(table, Tail(ranked), x)

RECURSIVE SortRanked(_, _, _)
SortRanked(table, ranked, k) ==
    IF k > Len(table) THEN ranked
    ELSE SortRanked(table,
                    IF table[k] > 0 THEN InsertRanked(table, ranked, k) ELSE ranked,
                    k + 1)

(* filter(score > 0) then sort_by *)
SortedCommands(table) == SortRanked(table, <<>>, 1)

(* a faulty variant: the comparison with min_threshold is reversed *)
SingleAutoSelect_Reversed(score, min) == score < min

SingleAutoSelect(score, min) == score > min

MultiAutoSelect(top, bound) == top > bound /\ top > HardFloor

(* the guard of the auto-select arm; the sum is an i32 addition *)
SumOverflows(table, sorted, max) ==
    Len(sorted) >= 2 /\ Overflows(max, table[sorted[2]])

AutoSelectGuard(table, sorted, min, max) ==
    \/ Len(sorted) = 1 /\ SingleAutoSelect(table[sorted[1]], min)
    \/ /\ Len(sorted) >= 2
       /\ MultiAutoSelect(table[sorted[1]], WrappingAdd(max, table[sorted[2]]))

MatchArm(table, sorted, min, max) ==
    IF Len(sorted) = 0 THEN "noop"
    ELSE IF AutoSelectGuard(table, sorted, min, max) THEN "auto"
    ELSE "interactive"

(* scored_commands.iter().find(|cmd| cmd.display == selected_label) *)
FindByDisplay(commands, selected) ==
    IF \E i \in 1..Len(commands) : commands[i].display = selected
    THEN CHOOSE i \in 1..Len(commands) :
            /\ commands[i].display = selected
            /\ \A j \in 1..(i - 1) : commands[j].display # selected
    ELSE 0

----------------------------------------------------------------------------
(* The inputs of a run *)

Labels == {"a", "b", "c"}

UndefinedLabels == {"zz"}

Displays == {<<"X">>, <<"Y">>}

Deltas == {-4, 1, 7, 11, MaxI32}

MinThresholds == {2, 3, MaxI32}

MaxThresholds == {3}

CheckCommands == {"check"}

Cmd(label, display) == [label |-> label, display |-> display, command |-> <<"open", label>>]

(* commands: an IndexMap, so labels are unique; the order is the file's.   *)
(* The two display strings are interchangeable, so the first is "X".       *)
CommandMaps ==
    {m \in SeqsUpTo({Cmd(l, d) : l \in Labels, d \in Displays}, MaxCommands) :
        /\ m # <<>>
        /\ m[1].display = <<"X">>
        /\ \A i, j \in 1..Len(m) : i # j => m[i].label # m[j].label}

BaseCommands == <<Cmd("a", <<"X">>), Cmd("b", <<"Y">>)>>

RegexTargets == {<<"a", 11>>, <<"zz", 1>>}

CheckTargets == {<<"b", 1>>, <<"zz", 1>>}

FanOutTargets == {"a", "b", "zz"} \X {1, 11, MaxI32}

(* configurations that vary the list of single-target scorers *)
RuleListConfigs ==
    [commands : {BaseCommands},
     scorers : SeqsUpTo([kind : {"Regex"}, pred : Patterns,
                         scores : {<<t>> : t \in RegexTargets}]
                        \cup [kind : {"Command"}, pred : CheckCommands,
                              scores : {<<t>> : t \in CheckTargets}],
                        MaxScorers),
     auto_select_min_threshold : {default_min_threshold},
     auto_select_max_threshold : {default_max_threshold}]

(* configurations that vary the targets of one multi-target scorer *)
FanOutConfigs ==
    [commands : {BaseCommands},
     scorers : {<<r>> : r \in [kind : {"RegexMulti"}, pred : {"^h"},
                               scores : SeqsUpTo(FanOutTargets, MaxTargets)]
                              \cup [kind : {"CommandMulti"}, pred : CheckCommands,
                                    scores : SeqsUpTo(FanOutTargets, MaxTargets)]},
     auto_select_min_threshold : {default_min_threshold},
     auto_select_max_threshold : {default_max_threshold, MaxI32}]

(* configurations that vary the commands, the thresholds and every score *)
DecisionConfigs ==
    UNION {[commands : {m},
            scorers : {<<[kind |-> "RegexMulti", pred |-> "^h",
                          scores |-> [i \in 1..Len(m) |-> <<m[i].label, f[i]>>]]>> :
                       f \in [1..Len(m) -> Deltas]},
            auto_select_min_threshold : MinThresholds,
            auto_select_max_threshold : MaxThresholds] : m \in CommandMaps}

Configs == RuleListConfigs \cup FanOutConfigs \cup DecisionConfigs

Payloads ==
    [kind : {"Text"}, text : SeqsUpTo({"h", " "}, MaxLen)]
    \cup [kind : {"Binary"}, text : {<<"bytes">>}]

(* stdout of `file --mime-type -b` *)
FileOutputs == {<<"i", "\n">>}

(* stdout of dmenu: nothing, a presented line, or typed text *)
MenuOutputs == {<<>>} \cup {Append(d, "\n") : d \in Displays \cup {<<"Z">>}}

NoData == [kind |-> "none", text |-> <<>>]

----------------------------------------------------------------------------
Init ==
    /\ config \in Configs
    /\ pc = "validate"
    /\ data = NoData
    /\ temp_file = NoData
    /\ text_for_matching = <<>>
    /\ scored_commands = <<>>
    /\ next_scorer = 0
    /\ log = <<>>
    /\ overflow_mode = "unobserved"
    /\ sorted_commands = <<>>
    /\ outcome = "none"
    /\ menu_stdin = <<>>
    /\ selected_label = <<>>
    /\ spawned = <<>>
    /\ error = ""

Fail(reason) ==
    /\ pc' = "error"
    /\ error' = reason

(* main, line 178: validate_environment(&config)? *)
ValidateEnvironment ==
    /\ pc = "validate"
    /\ \E tools_found \in BOOLEAN :
          LET bail == validate_environment(config, tools_found)
          IN  IF bail = "" THEN pc' = "acquire" /\ error' = error
              ELSE Fail(bail)
    /\ UNCHANGED <<config, data, temp_file, text_for_matching, scored_commands,
                   next_scorer, log, overflow_mode, sorted_commands, outcome,
                   menu_stdin, selected_label, spawned>>

(* main, lines 185-284: the payload from stdin, clipboard, selection, file or args *)
AcquireData ==
    /\ pc = "acquire"
    /\ \E read_ok \in BOOLEAN :
          IF read_ok
          THEN /\ \E d \in Payloads : data' = d
               /\ pc' = "persist"
               /\ error' = error
          ELSE /\ Fail("data source failed")
               /\ data' = data
    /\ UNCHANGED <<config, temp_file, text_for_matching, scored_commands,
                   next_scorer, log, overflow_mode, sorted_commands, outcome,
                   menu_stdin, selected_label, spawned>>

(* main, lines 286-305: write the temp file, derive the matching text, zero the table *)
PersistAndDerive ==
    /\ pc = "persist"
    /\ \E io_ok \in BOOLEAN :
          IF io_ok
          THEN /\ temp_file' = data
               /\ \E file_stdout \in FileOutputs :
                     text_for_matching' = get_text_for_matching(data, file_stdout)
               /\ scored_commands' = [i \in 1..Len(config.commands) |-> 0]
               /\ next_scorer' = 1
               /\ pc' = "score"
               /\ error' = error
          ELSE /\ Fail("temp file or file(1) failed")
               /\ UNCHANGED <<temp_file, text_for_matching, scored_commands, next_scorer>>
    /\ UNCHANGED <<config, data, log, overflow_mode, sorted_commands, outcome,
                   menu_stdin, selected_label, spawned>>

(* main, lines 307-409: one iteration of config.scorers.iter().for_each *)
EvalScorer ==
    /\ pc = "score"
    /\ next_scorer <= Len(config.scorers)
    /\ LET scorer == config.scorers[next_scorer]
       IN  \E status \in IF IsCommandKind(scorer)
                         THEN {"exit0", "exit_nonzero", "spawn_failed"}
                         ELSE {"not_run"} :
             LET result == ScorerResult(scorer, text_for_matching, status)
                 fold == EvalScorerFold(scorer, config.commands, scored_commands, result)
             IN  \E panics \in IF fold.overflowed /\ overflow_mode = "unobserved"
                               THEN BOOLEAN ELSE {FALSE} :
                   IF panics
                   THEN /\ pc' = "panic"
                        /\ error' = "attempt to add with overflow"
                        /\ UNCHANGED <<scored_commands, next_scorer, log, overflow_mode>>
                   ELSE /\ scored_commands' = fold.table
                        /\ next_scorer' = next_scorer + 1
                        /\ log' = Append(log, [scorer |-> next_scorer,
                                               status |-> status,
                                               result |-> result,
                                               check_runs |-> CheckRuns(scorer),
                                               before |-> scored_commands,
                                               after |-> fold.table,
                                               applied |-> fold.applied,
                                               dropped |-> fold.dropped])
                        /\ overflow_mode' = IF fold.overflowed THEN "wrapping"
                                            ELSE overflow_mode
                        /\ UNCHANGED <<pc, error>>
    /\ UNCHANGED <<config, data, temp_file, text_for_matching, sorted_commands,
                   outcome, menu_stdin, selected_label, spawned>>

(* main, lines 410-462: rank, then the match on sorted_commands.len() *)
Decide ==
    /\ pc = "score"
    /\ next_scorer > Len(config.scorers)
    /\ LET sorted == SortedCommands(scored_commands)
           min == config.auto_select_min_threshold
           max == config.auto_select_max_threshold
           arm == MatchArm(scored_commands, sorted, min, max)
           overflowed == SumOverflows(scored_commands, sorted, max)
       IN  \E panics \in IF overflowed /\ overflow_mode = "unobserved"
                         THEN BOOLEAN ELSE {FALSE} :
           \E spawn_ok \in BOOLEAN :
             IF panics
             THEN /\ pc' = "panic"
                  /\ error' = "attempt to add with overflow"
                  /\ UNCHANGED <<sorted_commands, outcome, menu_stdin, spawned,
                                 overflow_mode>>
             ELSE /\ sorted_commands' = sorted
                  /\ outcome' = arm
                  /\ overflow_mode' = IF overflowed THEN "wrapping" ELSE overflow_mode
                  /\ IF arm = "noop"
                     THEN /\ pc' = "done"
                          /\ UNCHANGED <<menu_stdin, spawned, error>>
                     ELSE IF ~spawn_ok
                     THEN /\ Fail("spawn failed")
                          /\ UNCHANGED <<menu_stdin, spawned>>
                     ELSE IF arm = "auto"
                     THEN /\ spawned' = Append(spawned, config.commands[sorted[1]].command)
                          /\ pc' = "done"
                          /\ UNCHANGED <<menu_stdin, error>>
                     ELSE /\ menu_stdin' = [i \in 1..Len(sorted) |->
                                               config.commands[sorted[i]].display]
                          /\ pc' = "menu"
                          /\ UNCHANGED <<spawned, error>>
    /\ UNCHANGED <<config, data, temp_file, text_for_matching, scored_commands,
                   next_scorer, log, selected_label>>

(* main, lines 464-485: dmenu's answer, resolved and launched *)
MenuSelect ==
    /\ pc = "menu"
    /\ \E stdout \in MenuOutputs, menu_ok \in BOOLEAN, spawn_ok \in BOOLEAN :
          LET selected == Trim(stdout)
              found == FindByDisplay(config.commands, selected)
          IN  IF ~menu_ok
              THEN /\ Fail("dmenu failed")
                   /\ UNCHANGED <<selected_label, spawned>>
              ELSE /\ selected_label' = selected
                   /\ IF found = 0
                      THEN /\ pc' = "done"
                           /\ UNCHANGED <<spawned, error>>
                      ELSE IF spawn_ok
                      THEN /\ spawned' = Append(spawned, config.commands[found].command)
                           /\ pc' = "done"
                           /\ error' = error
                      ELSE /\ Fail("spawn failed")
                           /\ spawned' = spawned
    /\ UNCHANGED <<config, data, temp_file, text_for_matching, scored_commands,
                   next_scorer, log, overflow_mode, sorted_commands, outcome,
                   menu_stdin>>

Next ==
    \/ ValidateEnvironment
    \/ AcquireData
    \/ PersistAndDerive
    \/ EvalScorer
    \/ Decide
    \/ MenuSelect

Spec == Init /\ [][Next]_vars

----------------------------------------------------------------------------
(* Vocabulary of the properties *)

Commands == config.commands

Min == config.auto_select_min_threshold

Max == config.auto_select_max_threshold

Decided == outcome # "none"

ScoringFinished == pc \in {"menu", "done"} \/ outcome # "none"

L == sorted_commands

Score(i) == scored_commands[i]

Positive == {i \in 1..Len(scored_commands) : scored_commands[i] > 0}

Range(seq) == {seq[i] : i \in 1..Len(seq)}

(* menu lines presented, when dmenu was started *)
MenuInvoked == menu_stdin # <<>>

(* the decision policy over unbounded integers; L[1] and L[2] are positive *)
(* i32 values, so their difference is exact                                 *)
PolicyArm ==
    IF Len(L) = 0 THEN "noop"
    ELSE IF Len(L) = 1 /\ Score(L[1]) > Min THEN "auto"
    ELSE IF Len(L) >= 2 /\ Score(L[1]) - Score(L[2]) > Max /\ Score(L[1]) > 10
    THEN "auto"
    ELSE "interactive"

LIsPositiveByScoreDescending ==
    /\ Range(L) = Positive
    /\ Len(L) = Cardinality(Positive)
    /\ \A i, j \in 1..Len(L) : i < j => Score(L[i]) >= Score(L[j])

ArmEffects ==
    /\ outcome = "noop" => spawned = <<>> /\ ~MenuInvoked /\ pc = "done" /\ error = ""
    /\ outcome = "auto" =>
          /\ ~MenuInvoked
          /\ \/ spawned = <<Commands[L[1]].command>> /\ pc = "done"
             \/ spawned = <<>> /\ pc = "error"
    /\ outcome = "interactive" =>
          \/ /\ pc \in {"menu", "done", "error"}
             /\ menu_stdin = [i \in 1..Len(L) |-> Commands[L[i]].display]
          \/ pc = "error" /\ ~MenuInvoked /\ spawned = <<>>

(* C1: once the run has ranked the commands, L is the list of the commands  *)
(* with a strictly positive score by descending score, and the arm taken is *)
(* the one the decision policy names: no-op for an empty L, auto-select of  *)
(* L[0] for a single candidate above min_threshold or for a top candidate   *)
(* above max_threshold + L[1].score and above 10, the menu otherwise.       *)
C1_DecisionPolicy ==
    Decided => /\ LIsPositiveByScoreDescending
               /\ outcome = PolicyArm
               /\ ArmEffects

(* the same policy on the runs in which no i32 addition overflowed *)
DecisionPolicyWithinRange ==
    (Decided /\ overflow_mode = "unobserved") => /\ LIsPositiveByScoreDescending
                                                 /\ outcome = PolicyArm
                                                 /\ ArmEffects

(* C10: no accumulation of a delta and no max_threshold + L[1].score leaves *)
(* the i32 range: no run panics on an overflow and none wraps around.       *)
C10_NoOverflow ==
    /\ pc # "panic"
    /\ overflow_mode = "unobserved"

----------------------------------------------------------------------------
(* Sums of deltas over unbounded integers.  A sum of i32 values can leave   *)
(* the range of TLC's integers, so it is kept as two halves:               *)
(* d = Hi(d) * 65536 + Lo(d) with 0 <= Lo(d) < 65536.                       *)

Hi(d) == d \div 65536

Lo(d) == d % 65536

DeltaAt(p) == config.scorers[p[1]].scores[p[2]][2]

LabelAt(p) == config.scorers[p[1]].scores[p[2]][1]

RECURSIVE SumHalf(_, _)
SumHalf(P, high) ==
    IF P = {} THEN 0
    ELSE LET p == CHOOSE x \in P : TRUE
         IN  (IF high THEN Hi(DeltaAt(p)) ELSE Lo(DeltaAt(p))) + SumHalf(P \ {p}, high)

EqualsSum(score, P) ==
    /\ Lo(score) = SumHalf(P, FALSE) % 65536
    /\ Hi(score) = SumHalf(P, TRUE) + (SumHalf(P, FALSE) \div 65536)

(* the predicate of evaluated scorer i held: its regex compiled and matched *)
(* the matching text, or its check command exited with status 0             *)
PredicateHeld(i) ==
    IF config.scorers[i].kind \in {"Regex", "RegexMulti"}
    THEN /\ config.scorers[i].pred \notin InvalidPatterns
         /\ RegexIsMatch(config.scorers[i].pred, text_for_matching)
    ELSE log[i].status = "exit0"

(* the (scorer, target) pairs evaluated so far that matched and target label *)
MatchedPairs(label) ==
    UNION {{<<i, j>> : j \in {t \in 1..Len(config.scorers[i].scores) :
                                 LabelAt(<<i, t>>) = label}} :
           i \in {r \in 1..Len(log) : PredicateHeld(r)}}

TableExists == next_scorer >= 1

(* C3: the table holds every configured command, at 0 before the first      *)
(* scorer, and after any number of scorers the score of each command is the *)
(* sum of the deltas of the matched (scorer, target) pairs that target it.  *)
C3_ScoreIsSumOfMatchedDeltas ==
    TableExists =>
        /\ Len(scored_commands) = Len(Commands)
        /\ \A c \in 1..Len(Commands) :
              EqualsSum(Score(c), MatchedPairs(Commands[c].label))

(* the same on the runs in which no i32 addition overflowed *)
ScoreIsSumWithinRange ==
    (TableExists /\ overflow_mode = "unobserved") =>
        /\ Len(scored_commands) = Len(Commands)
        /\ \A c \in 1..Len(Commands) :
              EqualsSum(Score(c), MatchedPairs(Commands[c].label))

----------------------------------------------------------------------------
(* Ranking *)

(* the bytes of a label, for the lexicographic order of strings *)
LabelBytes(label) ==
    CASE label = "a" -> <<97>>
      [] label = "b" -> <<98>>
      [] label = "c" -> <<99>>
      [] label = "zz" -> <<122, 122>>

RECURSIVE LexLess(_, _)
LexLess(x, y) ==
    IF y = <<>> THEN FALSE
    ELSE IF x = <<>> THEN TRUE
    ELSE IF x[1] # y[1] THEN x[1] < y[1]
    ELSE LexLess(Tail(x), Tail(y))

LabelLess(i, j) == LexLess(LabelBytes(Commands[i].label), LabelBytes(Commands[j].label))

MenuFollowsL ==
    MenuInvoked => menu_stdin = [i \in 1..Len(L) |-> Commands[L[i]].display]

(* C2, as claimed: in the ranked list a higher score ranks first and, of    *)
(* two equal scores, the lexicographically smaller label ranks first.       *)
C2_TieBrokenByLabel ==
    Decided =>
        \A i, j \in 1..Len(L) : i < j =>
            \/ Score(L[i]) > Score(L[j])
            \/ Score(L[i]) = Score(L[j]) /\ LabelLess(L[i], L[j])

(* C2, amended: the ranked list holds exactly the commands with a positive  *)
(* score, a higher score ranks first and, of two equal scores, the command  *)
(* that comes first in the configuration ranks first; the menu lines follow *)
(* that order.                                                              *)
C2_TieBrokenByConfigOrder ==
    Decided =>
        /\ Range(L) = Positive
        /\ \A i, j \in 1..Len(L) : i < j =>
              \/ Score(L[i]) > Score(L[j])
              \/ Score(L[i]) = Score(L[j]) /\ L[i] < L[j]
        /\ MenuFollowsL

(* two equal scores whose configuration order is the reverse of the label   *)
(* order, presented in the menu                                             *)
C2_Witness ==
    /\ Decided
    /\ MenuInvoked
    /\ Len(L) >= 2
    /\ Score(L[1]) = Score(L[2])
    /\ LabelLess(L[2], L[1])

----------------------------------------------------------------------------
(* Menu resolution *)

(* C4: after the menu, a launched command is that of a presented command    *)
(* (a member of L) whose display is the chosen string, and with an empty    *)
(* choice or one that is the display of no member of L nothing is launched. *)
C4_SelectionResolvedAgainstL ==
    (outcome = "interactive" /\ pc \in {"done", "error"} /\ MenuInvoked) =>
        /\ spawned # <<>> =>
              \E i \in 1..Len(L) :
                 /\ Commands[L[i]].display = selected_label
                 /\ spawned = <<Commands[L[i]].command>>
        /\ (\A i \in 1..Len(L) : Commands[L[i]].display # selected_label) =>
              spawned = <<>>

----------------------------------------------------------------------------
(* Per-scorer failures *)

(* evaluated scorer i failed: invalid regex, check command not launched, or *)
(* check command exited non-zero                                            *)
ScorerFailed(entry) ==
    LET scorer == config.scorers[entry.scorer]
    IN  \/ scorer.kind \in {"Regex", "RegexMulti"} /\ scorer.pred \in InvalidPatterns
        \/ entry.status \in {"spawn_failed", "exit_nonzero"}

FailuresLeaveTableAlone ==
    /\ \A i \in 1..Len(log) :
          ScorerFailed(log[i]) => log[i].after = log[i].before /\ log[i].applied = 0
    /\ ScoringFinished => Len(log) = Len(config.scorers)

(* the step that evaluates a failing scorer *)
FailedScorerStep ==
    /\ Len(log') = Len(log) + 1
    /\ ScorerFailed(log'[Len(log')])

(* C5: a scorer that fails leaves the score table as it was and applies no  *)
(* delta; the step that evaluates it does not end the run but moves on to   *)
(* the next scorer; and a run reaches the ranking only after every scorer   *)
(* of the configuration has been evaluated.                                 *)
C5_FailureIsolated ==
    /\ []FailuresLeaveTableAlone
    /\ [][FailedScorerStep =>
            /\ scored_commands' = scored_commands
            /\ pc' = "score"
            /\ error' = ""
            /\ next_scorer' = next_scorer + 1]_vars

(* a failed scorer followed by a later scorer that changed a score *)
C5_Witness ==
    \E i, j \in 1..Len(log) :
        /\ i < j
        /\ ScorerFailed(log[i])
        /\ log[j].after # log[j].before
        /\ ScoringFinished

----------------------------------------------------------------------------
(* Startup validation *)

ConfiguredLabels == {Commands[i].label : i \in 1..Len(Commands)}

AllTargets ==
    UNION {{<<i, j>> : j \in 1..Len(config.scorers[i].scores)} :
           i \in 1..Len(config.scorers)}

UndefinedTargets == {p \in AllTargets : LabelAt(p) \notin ConfiguredLabels}

ConfigInvalid == Min >= Max \/ UndefinedTargets # {}

NothingDone ==
    /\ data = NoData
    /\ temp_file = NoData
    /\ log = <<>>
    /\ scored_commands = <<>>
    /\ ~MenuInvoked
    /\ spawned = <<>>
    /\ outcome = "none"

(* C6: with min_threshold >= max_threshold, or a scorer of any kind naming  *)
(* a label that is no configured command, the run ends in an error with no  *)
(* input read, no temp file written, no check command run, no score changed *)
(* and nothing launched; and in a run that reaches scoring every target is  *)
(* a configured command and no effect is dropped.                           *)
C6_ValidationGatesRun ==
    /\ ConfigInvalid => pc \in {"validate", "error"} /\ NothingDone
    /\ pc = "acquire" => NothingDone
    /\ TableExists =>
          /\ UndefinedTargets = {}
          /\ \A i \in 1..Len(log) : log[i].dropped = 0

(* a run refused because the second target of a multi-target scorer is no   *)
(* configured command                                                       *)
C6_Witness ==
    /\ pc = "error"
    /\ Min < Max
    /\ \E p \in UndefinedTargets :
          /\ p[2] = 2
          /\ config.scorers[p[1]].kind = "CommandMulti"
          /\ LabelAt(<<p[1], 1>>) \in ConfiguredLabels

----------------------------------------------------------------------------
(* Check commands *)

----------------------------------------------------------------------------
(* Matching text *)

TextDerived == TableExists /\ data.kind = "Text"

(* C8, as claimed: the matching text of a Text payload is the payload with  *)
(* its leading and trailing whitespace removed.                             *)
C8_MatchingTextIsTrimmed ==
    TextDerived =>
        \E from \in 1..(Len(data.text) + 1), to \in 0..Len(data.text) :
           /\ text_for_matching = SubSeq(data.text, from, to)
           /\ \A k \in 1..Len(data.text) :
                 (k < from \/ k > to) => IsWhitespace(data.text[k])
           /\ text_for_matching # <<>> =>
                 /\ ~IsWhitespace(text_for_matching[1])
                 /\ ~IsWhitespace(text_for_matching[Len(text_for_matching)])

(* C8, amended: the matching text of a Text payload is the payload with its *)
(* trailing whitespace removed and its leading whitespace kept, so that a   *)
(* payload with more trailing whitespace has the same matching text and the *)
(* same regex matches.                                                      *)
C8_MatchingTextIsEndTrimmed ==
    TextDerived =>
        /\ \E to \in 0..Len(data.text) :
              /\ text_for_matching = SubSeq(data.text, 1, to)
              /\ \A k \in (to + 1)..Len(data.text) : IsWhitespace(data.text[k])
              /\ to > 0 => ~IsWhitespace(data.text[to])
        /\ \A w \in {" ", "\n", "\t"} :
              get_text_for_matching([data EXCEPT !.text = Append(@, w)], <<>>)
                 = text_for_matching

(* a Text payload with leading and trailing whitespace around content *)
C8_Witness ==
    /\ TextDerived
    /\ Len(data.text) >= 3
    /\ IsWhitespace(data.text[1])
    /\ IsWhitespace(data.text[Len(data.text)])
    /\ text_for_matching # <<>>

----------------------------------------------------------------------------
(* Threshold monotonicity *)

MinThresholdProbes == {-1, 0, 1, 2, 3, 6, 7, 10, 11, 12, 99}

ArmWithMin(m) == MatchArm(scored_commands, L, m, Max)

(* C9: with exactly one candidate of positive score, for valid values       *)
(* m1 <= m2 of min_threshold, auto-select under m2 implies auto-select under *)
(* m1; the run's own arm is the one for its own min_threshold.              *)
C9_MinThresholdMonotone ==
    (Decided /\ Len(L) = 1) =>
        /\ outcome = ArmWithMin(Min)
        /\ \A m1, m2 \in MinThresholdProbes \cup {Min} :
              (m1 <= m2 /\ m2 < Max /\ ArmWithMin(m2) = "auto") => ArmWithMin(m1) = "auto"

(* a single candidate that a lower min_threshold auto-selects and a higher  *)
(* valid one does not                                                       *)
C9_Witness ==
    /\ Decided
    /\ Len(L) = 1
    /\ \E m1, m2 \in MinThresholdProbes \cup {Min} :
          /\ m1 < m2
          /\ m2 < Max
          /\ ArmWithMin(m1) = "auto"
          /\ ArmWithMin(m2) = "interactive"
          /\ Min \in {m1, m2}

====
